---- MODULE Spec2Model ----
(***************************************************************************)
(* Model of product_manager.py: the text patchers update_products_js and   *)
(* update_json_ld, the image pipeline cache_image_as_webp, and add_product *)
(* which threads one product through them and writes index.html/404.html.  *)
(*                                                                         *)
(* Text is a sequence of tokens.  A token is a record [c, j]: c names a    *)
(* character or a fixed piece of text, j is the value of a JSON object     *)
(* text (NoJson for every other token).  Token names:                      *)
(*   "BSL" backslash   "SQ" single quote   "NL" newline   "SP" space       *)
(*   "I4" / "I6" four / six spaces of indentation                          *)
(*   "M"   the marker text  // Add more products here over time            *)
(*   "LDO" <script type="application/ld+json">     "SC" </script>          *)
(*   "json" the text of a JSON object; "badjson" that text with product    *)
(*   blocks spliced into one of its strings (no longer valid JSON).        *)
(***************************************************************************)
EXTENDS Integers, Sequences, FiniteSets, TLC

\* ------------------------------------------------------------------ bounds
MaxLen == 3
MaxOps == 2
MaxCalls == 2
MaxDim == 8

\* --------------------------------------------------------------- constants
MAX_WIDTH == 350

\* ------------------------------------------------------------------ tokens
NoJson == [has |-> FALSE, items |-> <<>>, num |-> -1, fmt |-> "none", sp |-> 0]

Ch(c) == [c |-> c, j |-> NoJson]

Txt(s) == [i \in 1..Len(s) |-> Ch(s[i])]

JsonTok(has, items, num, fmt) ==
    [c |-> "json", j |-> [has |-> has, items |-> items, num |-> num, fmt |-> fmt, sp |-> 0]]

IsSpace(tok) == tok.c \in {"SP", "NL", "I4", "I6"}

\* first index of s at or after i whose token is not whitespace (Len(s)+1 if none)
RECURSIVE SkipSpace(_, _)
SkipSpace(s, i) ==
    IF i > Len(s) THEN Len(s) + 1
    ELSE IF IsSpace(s[i]) THEN SkipSpace(s, i + 1) ELSE i

Slice(s, a, b) == IF a > b THEN <<>> ELSE SubSeq(s, a, b)

Contains(str, c) == \E i \in 1..Len(str) : str[i] = c

\* ------------------------------------------------------ esc (lines 42-48)
RECURSIVE ReplaceAll(_, _, _)
ReplaceAll(str, from, to) ==
    IF str = <<>> THEN <<>>
    ELSE (IF Head(str) = from THEN to ELSE <<Head(str)>>) \o ReplaceAll(Tail(str), from, to)

RECURSIVE LStrip(_)
LStrip(str) ==
    IF str = <<>> THEN <<>>
    ELSE IF Head(str) \in {"SP", "NL"} THEN LStrip(Tail(str)) ELSE str

RECURSIVE RStrip(_)
RStrip(str) ==
    IF str = <<>> THEN <<>>
    ELSE IF str[Len(str)] \in {"SP", "NL"} THEN RStrip(SubSeq(str, 1, Len(str) - 1)) ELSE str

Strip(str) == RStrip(LStrip(str))

escQuotesFirst(value) ==
    Strip(ReplaceAll(ReplaceAll(ReplaceAll(value, "SQ", <<"BSL", "SQ">>),
                                "BSL", <<"BSL", "BSL">>),
                     "NL", <<"SP">>))

esc(value) ==
    Strip(ReplaceAll(ReplaceAll(ReplaceAll(value, "BSL", <<"BSL", "BSL">>),
                                "SQ", <<"BSL", "SQ">>),
                     "NL", <<"SP">>))

\* ------------------------------------- update_products_js (lines 36-62)
MARKER == "M"

JsonStrings(j) ==
    UNION {{j.items[i].url, j.items[i].name, j.items[i].image} : i \in 1..Len(j.items)}

\* the marker text occurs in the text of token tok
HasMarker(tok) ==
    \/ tok.c = MARKER
    \/ tok.c \in {"json", "badjson"} /\ \E s \in JsonStrings(tok.j) : Contains(s, MARKER)
    \/ tok.c = "badjson"

MarkerIn(content) == \E i \in 1..Len(content) : HasMarker(content[i])

FirstMarker(content) ==
    CHOOSE i \in 1..Len(content) :
        HasMarker(content[i]) /\ \A k \in 1..(i - 1) : ~HasMarker(content[k])

product_block(product) ==
    Txt(<<"I4", "{", "NL", "I6", "title: ", "SQ">>) \o Txt(esc(product.title))
    \o Txt(<<"SQ", ",", "NL", "I6", "url: ", "SQ">>) \o Txt(esc(product.url))
    \o Txt(<<"SQ", ",", "NL", "I6", "image: ", "SQ">>) \o Txt(esc(product.image))
    \o Txt(<<"SQ", ",", "NL", "I6", "alt: ", "SQ">>) \o Txt(esc(product.alt))
    \o Txt(<<"SQ", ",", "NL", "I6", "description: ", "SQ">>) \o Txt(esc(product.description))
    \o Txt(<<"SQ", "NL", "I4", "}", ",", "NL">>)

\* content.replace(marker, product_block + "    " + marker, 1), line 60
SpliceAtMarker(content, product) ==
    LET m == FirstMarker(content)
        before == Slice(content, 1, m - 1)
        after == Slice(content, m + 1, Len(content))
    IN  IF content[m].c = MARKER
        THEN before \o product_block(product) \o Txt(<<"I4", MARKER>>) \o after
        ELSE before
             \o <<[c |-> "badjson", j |-> [content[m].j EXCEPT !.sp = @ + 1]]>>
             \o after

\* a match of }\s*(// Add more products here over time) starts at i
BraceMarkerAt(s, i) ==
    /\ s[i].c = "}"
    /\ SkipSpace(s, i + 1) <= Len(s)
    /\ s[SkipSpace(s, i + 1)].c = MARKER

\* re.sub(r"}\s*(marker)", "},\n    \\1", updated, count=1), line 61
NormalizeBrace(s) ==
    IF \E i \in 1..Len(s) : BraceMarkerAt(s, i)
    THEN LET i == CHOOSE i \in 1..Len(s) :
                    BraceMarkerAt(s, i) /\ \A k \in 1..(i - 1) : ~BraceMarkerAt(s, k)
             e == SkipSpace(s, i + 1)
         IN  Slice(s, 1, i - 1) \o Txt(<<"}", ",", "NL", "I4", MARKER>>)
             \o Slice(s, e + 1, Len(s))
    ELSE s

JsRaises(content) == ~MarkerIn(content)

update_products_js(content, product) == NormalizeBrace(SpliceAtMarker(content, product))

\* ---------------------------------------- update_json_ld (lines 65-88)
StartsObject(tok) == tok.c \in {"json", "badjson", "{"}

EndsObject(tok) == tok.c \in {"json", "badjson", "}"}

\* the token at e can end the captured group: a closing brace, then \s*</script>
CloseAt(s, e) ==
    /\ EndsObject(s[e])
    /\ SkipSpace(s, e + 1) <= Len(s)
    /\ s[SkipSpace(s, e + 1)].c = "SC"

\* re.search of <script type="application/ld+json">\s*(\{[\s\S]*?\})\s*</script>
\* can match with the opening tag at i
LdMatchAt(s, i) ==
    /\ s[i].c = "LDO"
    /\ SkipSpace(s, i + 1) <= Len(s)
    /\ StartsObject(s[SkipSpace(s, i + 1)])
    /\ \E e \in SkipSpace(s, i + 1)..Len(s) : CloseAt(s, e)

LdFound(s) == \E i \in 1..Len(s) : LdMatchAt(s, i)

\* <<first, last>> token index of match.group(1): leftmost match, shortest group
LdGroup(s) ==
    LET i == CHOOSE i \in 1..Len(s) : LdMatchAt(s, i) /\ \A k \in 1..(i - 1) : ~LdMatchAt(s, k)
        st == SkipSpace(s, i + 1)
        e == CHOOSE e \in st..Len(s) : CloseAt(s, e) /\ \A k \in st..(e - 1) : ~CloseAt(s, k)
    IN  <<st, e>>

\* json.loads(schema_str) succeeds: the group is the text of one JSON object
GroupIsJson(s) == LdGroup(s)[1] = LdGroup(s)[2] /\ s[LdGroup(s)[1]].c = "json"

LdRaises(content) == ~LdFound(content) \/ ~GroupIsJson(content)

\* data.get("itemListElement", [])
ItemList(j) == IF j.has THEN j.items ELSE <<>>

\* "position": len(data.get("itemListElement", [])) + 1, line 79
NextPosition(j) == Len(ItemList(j)) + 1

ListItem(j, product) ==
    [position |-> NextPosition(j), url |-> product.url, name |-> product.title,
     image |-> product.image]

\* lines 84-87: append, recount, json.dumps(data, indent=2)
new_schema(j, product) ==
    LET items == Append(ItemList(j), ListItem(j, product))
    IN  JsonTok(TRUE, items, Len(items), "indent2")

\* content.replace(schema_str, new_schema, 1): the first place whose text equals schema_str
FirstOccurrence(content, tok) ==
    CHOOSE k \in 1..Len(content) : content[k] = tok /\ \A m \in 1..(k - 1) : content[m] # tok

update_json_ld(content, product) ==
    LET schema == content[LdGroup(content)[1]]
        k == FirstOccurrence(content, schema)
    IN  [content EXCEPT ![k] = new_schema(schema.j, product)]

\* ----------------------------------------------- slugify (lines 103-105)
IsAlnum(c) == c \in {"a", "b", "A"}

Lower(c) == IF c = "A" THEN "a" ELSE c

\* re.sub(r"[^a-zA-Z0-9]+", "-", text.lower())
RECURSIVE Hyphenate(_, _)
Hyphenate(text, inRun) ==
    IF text = <<>> THEN <<>>
    ELSE IF Head(text) = MARKER
    THEN (IF inRun THEN <<>> ELSE <<"-">>) \o <<"add-more-products-here-over-time">>
         \o Hyphenate(Tail(text), FALSE)
    ELSE IF IsAlnum(Head(text)) THEN <<Lower(Head(text))>> \o Hyphenate(Tail(text), FALSE)
    ELSE IF inRun THEN Hyphenate(Tail(text), TRUE)
    ELSE <<"-">> \o Hyphenate(Tail(text), TRUE)

StripHyphens(s) ==
    LET a == IF s # <<>> /\ Head(s) = "-" THEN Tail(s) ELSE s
    IN  IF a # <<>> /\ a[Len(a)] = "-" THEN SubSeq(a, 1, Len(a) - 1) ELSE a

slugify(text) ==
    LET t == StripHyphens(Hyphenate(text, FALSE))
    IN  IF t = <<>> THEN <<"image">> ELSE t

\* dest = IMAGES_DIR / f"{slug}.webp"; str(dest).replace("\\", "/"), lines 137, 162
DestPath(title) == <<"images/">> \o slugify(title) \o <<".webp">>

\* ------------------------------------------------- resize (lines 151-153)
Max(a, b) == IF a >= b THEN a ELSE b

\* new_height = max(1, int((MAX_WIDTH / float(img.width)) * img.height)): int() truncates.
\* For the sizes drawn below the double product truncates to the exact quotient's floor.
Resized(w, h) ==
    IF w > MAX_WIDTH THEN <<MAX_WIDTH, Max(1, (MAX_WIDTH * h) \div w)>> ELSE <<w, h>>

\* =================================================================== state
VARIABLES
    fn, arg, res, ops,                  \* a pure function under test: its input, output, history
    index, mirror, imagesDir, images,   \* the disk: index.html, 404.html, images/
    pillow,                             \* whether the PIL import succeeded (lines 16-20)
    pc, product, content, dest,         \* add_product's position and locals
    resp1, resp, fetches, decodeTried,  \* cache_image_as_webp's fetches
    snap, outcome, calls, doc0          \* disk at the start of the call, result, history

pureVars == <<fn, arg, res, ops>>

diskVars == <<index, mirror, imagesDir, images>>

callVars == <<pillow, pc, product, content, dest, resp1, resp, fetches, decodeTried,
              snap, outcome, calls, doc0>>

vars == <<pureVars, diskVars, callVars>>

\* ------------------------------------------------------------ documents
EmptyList == JsonTok(TRUE, <<>>, 0, "orig")

ScriptArray == Txt(<<"<script>", "const products = [", "NL", "I4", MARKER, "NL", "];", "SC">>)

LdBlock(tok) == <<Ch("LDO"), tok, Ch("SC")>>

\* the structured-data block in the head, the script array in the body
DocGood == LdBlock(EmptyList) \o ScriptArray

\* the script array first
DocScriptFirst == ScriptArray \o LdBlock(EmptyList)

\* the object's text also occurs earlier in the page, outside any ld+json block
DocDup == Txt(<<"<!--">>) \o <<EmptyList>> \o Txt(<<"-->">>) \o DocGood

\* the marker text occurs a second time, after a closing brace
DocTwoMarkers == DocGood \o Txt(<<"<script>", "{", "}", "SP", MARKER, "SC">>)

\* numberOfItems wrong; no numberOfItems and no itemListElement
DocWrongCount == LdBlock(JsonTok(TRUE, <<>>, 5, "orig")) \o ScriptArray

DocBareObject == LdBlock(JsonTok(FALSE, <<>>, -1, "orig")) \o ScriptArray

DocNoMarker == LdBlock(EmptyList) \o Txt(<<"<script>", "const products = [", "NL", "];", "SC">>)

DocNoBlock == ScriptArray

DocBadJson == Txt(<<"LDO", "{", "oops", "}", "SC">>) \o ScriptArray

\* -------------------------------------------------------------- products
Product(title, description) ==
    [title |-> title, url |-> <<"https://", "a">>, image |-> <<"https://", "b">>,
     alt |-> <<"a">>, description |-> description]

PatchProducts ==
    {Product(<<"a">>, <<"a", "SQ", "b">>), Product(<<MARKER>>, <<"b">>)}

\* ------------------------------------------------ pure-function harness
EscAlphabet == {"a", "BSL", "SQ", "NL", "SP"}

EscValues == UNION {[1..n -> EscAlphabet] : n \in 0..MaxLen}

Widths == {MAX_WIDTH + 50 * k : k \in -1..MaxDim}

Heights == 1..MaxDim

PatchDocs == {DocGood, DocScriptFirst, DocDup, DocTwoMarkers, DocWrongCount,
              DocBareObject, DocNoMarker, DocNoBlock, DocBadJson}

NoDisk == [index |-> <<>>, mirror |-> <<>>, imagesDir |-> FALSE, images |-> {}]

NoResp == [status |-> "none", ctAvif |-> FALSE, body |-> "none"]

NoProduct == Product(<<>>, <<>>)

CallIdle ==
    /\ pc = "idle" /\ product = NoProduct /\ content = <<>> /\ dest = <<>>
    /\ resp1 = NoResp /\ resp = NoResp /\ fetches = 0 /\ decodeTried = FALSE
    /\ snap = NoDisk /\ outcome = "none" /\ calls = 0

PureInit ==
    /\ \/ fn = "esc" /\ arg \in EscValues /\ res = <<>>
       \/ fn = "resize" /\ arg \in Widths \X Heights /\ res = <<>>
       \/ fn = "patch" /\ arg = <<>> /\ res \in PatchDocs
    /\ ops = <<>>
    /\ index = <<>> /\ mirror = <<>> /\ imagesDir = FALSE /\ images = {}
    /\ pillow = TRUE /\ doc0 = <<>>
    /\ CallIdle

\* esc(value), lines 42-48
ApplyEsc ==
    /\ fn = "esc" /\ ops = <<>>
    /\ res' = esc(arg)
    /\ ops' = <<"esc">>
    /\ UNCHANGED <<fn, arg, diskVars, callVars>>

\* lines 151-153 on an image of arg[1] x arg[2] pixels
ApplyResize ==
    /\ fn = "resize" /\ ops = <<>>
    /\ res' = Resized(arg[1], arg[2])
    /\ ops' = <<"resize">>
    /\ UNCHANGED <<fn, arg, diskVars, callVars>>

\* update_products_js(res, p): the ValueError of line 40, or the new text
ApplyJs(p) ==
    /\ fn = "patch" /\ Len(ops) < MaxOps
    /\ arg' = res
    /\ IF JsRaises(res)
       THEN res' = res /\ ops' = Append(ops, "js_raise")
       ELSE res' = update_products_js(res, p) /\ ops' = Append(ops, "js")
    /\ UNCHANGED <<fn, diskVars, callVars>>

\* update_json_ld(res, p): the ValueError of line 72 or of json.loads, or the new text
ApplyLd(p) ==
    /\ fn = "patch" /\ Len(ops) < MaxOps
    /\ arg' = res
    /\ IF LdRaises(res)
       THEN res' = res /\ ops' = Append(ops, "ld_raise")
       ELSE res' = update_json_ld(res, p) /\ ops' = Append(ops, "ld")
    /\ UNCHANGED <<fn, diskVars, callVars>>

\* lines 96-97: update_products_js, then update_json_ld on its result
ApplyBoth(p) ==
    /\ fn = "patch" /\ Len(ops) < MaxOps
    /\ arg' = res
    /\ IF JsRaises(res) \/ LdRaises(update_products_js(res, p))
       THEN res' = res /\ ops' = Append(ops, "both_raise")
       ELSE /\ res' = update_json_ld(update_products_js(res, p), p)
            /\ ops' = Append(ops, "both")
    /\ UNCHANGED <<fn, diskVars, callVars>>

PureNext ==
    \/ ApplyEsc
    \/ ApplyResize
    \/ \E p \in PatchProducts : ApplyJs(p)
    \/ \E p \in PatchProducts : ApplyLd(p)
    \/ \E p \in PatchProducts : ApplyBoth(p)

SpecPure == PureInit /\ [][PureNext]_vars

\* ============================================================ add_product
\* what requests.get hands back: a status, the Content-Type, and the payload
BodyWide == [magic |-> FALSE, decodable |-> TRUE, w |-> 700, h |-> 3]

BodyNarrow == [magic |-> FALSE, decodable |-> TRUE, w |-> 300, h |-> 200]

BodyAvif == [magic |-> TRUE, decodable |-> FALSE, w |-> 0, h |-> 0]

BodyGarbage == [magic |-> FALSE, decodable |-> FALSE, w |-> 0, h |-> 0]

Responses ==
    [status : {"ok"}, ctAvif : BOOLEAN, body : {BodyWide, BodyNarrow, BodyAvif, BodyGarbage}]
    \cup [status : {"http", "request"}, ctAvif : {FALSE}, body : {BodyGarbage}]

CallProducts == PatchProducts

InitDocs == {DocGood, DocScriptFirst, DocDup, DocNoMarker, DocNoBlock, DocBadJson}

Disk == [index |-> index, mirror |-> mirror, imagesDir |-> imagesDir, images |-> images]

Init ==
    /\ fn = "none" /\ arg = <<>> /\ res = <<>> /\ ops = <<>>
    /\ doc0 \in InitDocs
    /\ index = doc0 /\ mirror = doc0
    /\ imagesDir \in BOOLEAN /\ images = {}
    /\ pillow \in BOOLEAN
    /\ CallIdle

\* the exception leaves add_product; handle_add reports it (lines 292-294)
Fail(why) == pc' = "idle" /\ outcome' = why

NeedsRetryHeaderOnly(r) == r.ctAvif

\* "avif" in content_type.lower() or b"ftypavif" in data[:32], line 144
NeedsRetry(r) == r.ctAvif \/ r.body.magic

\* handle_add calls add_product(product), line 288; lines 92-93, 132-133
Start(p) ==
    /\ pc = "idle" /\ calls < MaxCalls
    /\ calls' = calls + 1
    /\ product' = p
    /\ snap' = Disk
    /\ content' = <<>> /\ dest' = <<>>
    /\ resp1' = NoResp /\ resp' = NoResp /\ fetches' = 0 /\ decodeTried' = FALSE
    /\ IF pillow THEN pc' = "mkdir" /\ outcome' = "running" ELSE Fail("failed_pillow")
    /\ UNCHANGED <<pureVars, diskVars, pillow, doc0>>

\* IMAGES_DIR.mkdir(exist_ok=True); slug; dest, lines 135-137
Mkdir ==
    /\ pc = "mkdir"
    /\ imagesDir' = TRUE
    /\ dest' = DestPath(product.title)
    /\ pc' = "fetch1"
    /\ UNCHANGED <<pureVars, index, mirror, images, pillow, product, content, resp1, resp,
                   fetches, decodeTried, snap, outcome, calls, doc0>>

\* fetch_image_bytes with accept_primary, then the test of line 144
Fetch1(r) ==
    /\ pc = "fetch1"
    /\ fetches' = fetches + 1
    /\ resp1' = r /\ resp' = r
    /\ IF r.status # "ok" THEN Fail("failed_fetch")
       ELSE pc' = (IF NeedsRetry(r) THEN "fetch2" ELSE "decode") /\ UNCHANGED outcome
    /\ UNCHANGED <<pureVars, diskVars, pillow, product, content, dest, decodeTried,
                   snap, calls, doc0>>

\* the second fetch_image_bytes, line 146
Fetch2(r) ==
    /\ pc = "fetch2"
    /\ fetches' = fetches + 1
    /\ resp' = r
    /\ IF r.status # "ok" THEN Fail("failed_fetch")
       ELSE pc' = "decode" /\ UNCHANGED outcome
    /\ UNCHANGED <<pureVars, diskVars, pillow, product, content, dest, resp1, decodeTried,
                   snap, calls, doc0>>

\* Image.open, convert, resize, img.save(dest), lines 148-162; line 93 stores the path
Decode ==
    /\ pc = "decode"
    /\ decodeTried' = TRUE
    /\ IF ~resp.body.decodable
       THEN Fail("failed_decode") /\ UNCHANGED <<images, product>>
       ELSE /\ images' = {i \in images : i.path # dest}
                          \cup {[path |-> dest, size |-> Resized(resp.body.w, resp.body.h)]}
            /\ product' = [product EXCEPT !.image = dest]
            /\ pc' = "load" /\ UNCHANGED outcome
    /\ UNCHANGED <<pureVars, index, mirror, imagesDir, pillow, content, dest, resp1, resp,
                   fetches, snap, calls, doc0>>

\* content = load_file(INDEX_PATH), line 95
Load ==
    /\ pc = "load"
    /\ content' = index
    /\ pc' = "js"
    /\ UNCHANGED <<pureVars, diskVars, pillow, product, dest, resp1, resp, fetches,
                   decodeTried, snap, outcome, calls, doc0>>

UpdateProductsJsAndSave ==
    /\ pc = "js"
    /\ IF JsRaises(content)
       THEN Fail("failed_marker") /\ UNCHANGED <<content, index>>
       ELSE /\ content' = update_products_js(content, product)
            /\ index' = content'
            /\ pc' = "ld" /\ UNCHANGED outcome
    /\ UNCHANGED <<pureVars, mirror, imagesDir, images, pillow, product, dest, resp1, resp,
                   fetches, decodeTried, snap, calls, doc0>>

\* content = update_products_js(content, product), line 96
UpdateProductsJs ==
    /\ pc = "js"
    /\ IF JsRaises(content)
       THEN Fail("failed_marker") /\ UNCHANGED content
       ELSE /\ content' = update_products_js(content, product)
            /\ pc' = "ld" /\ UNCHANGED outcome
    /\ UNCHANGED <<pureVars, diskVars, pillow, product, dest, resp1, resp, fetches,
                   decodeTried, snap, calls, doc0>>

\* content = update_json_ld(content, product), line 97
UpdateJsonLd ==
    /\ pc = "ld"
    /\ IF LdRaises(content)
       THEN Fail("failed_jsonld") /\ UNCHANGED content
       ELSE /\ content' = update_json_ld(content, product)
            /\ pc' = "save_index" /\ UNCHANGED outcome
    /\ UNCHANGED <<pureVars, diskVars, pillow, product, dest, resp1, resp, fetches,
                   decodeTried, snap, calls, doc0>>

\* path.write_text failing: open() refused (file as it was) or the write broke
\* off after open() truncated the file
AfterFailedWrite(old) == {old, <<>>}

\* save_file(INDEX_PATH, content), line 98
SaveIndex ==
    /\ pc = "save_index"
    /\ \/ index' = content /\ pc' = "save_mirror" /\ UNCHANGED outcome
       \/ index' \in AfterFailedWrite(index) /\ Fail("failed_save_index")
    /\ UNCHANGED <<pureVars, mirror, imagesDir, images, pillow, product, content, dest,
                   resp1, resp, fetches, decodeTried, snap, calls, doc0>>

\* save_file(Path("404.html"), content), lines 99-100
SaveMirror ==
    /\ pc = "save_mirror"
    /\ \/ mirror' = content /\ pc' = "idle" /\ outcome' = "added"
       \/ mirror' \in AfterFailedWrite(mirror) /\ Fail("failed_save_mirror")
    /\ UNCHANGED <<pureVars, index, imagesDir, images, pillow, product, content, dest,
                   resp1, resp, fetches, decodeTried, snap, calls, doc0>>

Next ==
    \/ \E p \in CallProducts : Start(p)
    \/ Mkdir
    \/ \E r \in Responses : Fetch1(r)
    \/ \E r \in Responses : Fetch2(r)
    \/ Decode
    \/ Load
    \/ UpdateProductsJs
    \/ UpdateJsonLd
    \/ SaveIndex
    \/ SaveMirror

Spec == Init /\ [][Next]_vars

\* =========================================================== observations
\* the object of the page's first ld+json block
Block(doc) == doc[LdGroup(doc)[1]].j

Positions(j) == [i \in 1..Len(ItemList(j)) |-> ItemList(j)[i].position]

OneToN(n) == [i \in 1..n |-> i]

LastOp == IF ops = <<>> THEN "none" ELSE ops[Len(ops)]

\* reading a single-quoted script literal back: a backslash yields the character after it
RECURSIVE Unescape(_)
Unescape(str) ==
    IF str = <<>> THEN <<>>
    ELSE IF Head(str) = "BSL" /\ Len(str) >= 2 THEN <<str[2]>> \o Unescape(Tail(Tail(str)))
    ELSE <<Head(str)>> \o Unescape(Tail(str))

\* ================================================================= claims

\* object entries of the script array as the page's script reads them: the
\* opening braces that stand outside every single-quoted literal
RECURSIVE CountEntries(_, _, _)
CountEntries(doc, i, inLiteral) ==
    IF i > Len(doc) THEN 0
    ELSE IF inLiteral /\ doc[i].c = "BSL" THEN CountEntries(doc, i + 2, inLiteral)
    ELSE IF doc[i].c = "SQ" THEN CountEntries(doc, i + 1, ~inLiteral)
    ELSE (IF doc[i].c = "{" /\ ~inLiteral THEN 1 ELSE 0) + CountEntries(doc, i + 1, inLiteral)

EntryCount(doc) == CountEntries(doc, 1, FALSE)

\* the script array and the structured data mirror each other
Consistent(doc) ==
    /\ ~LdRaises(doc)
    /\ Block(doc).has
    /\ EntryCount(doc) = Block(doc).num
    /\ Block(doc).num = Len(Block(doc).items)
    /\ Positions(Block(doc)) = OneToN(Len(Block(doc).items))

OneMarkerOneBlock(doc) ==
    /\ Cardinality({i \in 1..Len(doc) : HasMarker(doc[i])}) = 1
    /\ Cardinality({i \in 1..Len(doc) : doc[i].c = "LDO"}) = 1

TransformFailures == {"failed_fetch", "failed_decode", "failed_marker", "failed_jsonld"}

\* C1: index.html and 404.html are written only once the image step,
\* update_products_js and update_json_ld have all succeeded; while those steps
\* run, and after any of them failed, both files hold what they held when the
\* call began.
C1_DocumentsWrittenLast ==
    /\ pc \in {"mkdir", "fetch1", "fetch2", "decode", "load", "js", "ld", "save_index"}
          => index = snap.index /\ mirror = snap.mirror
    /\ (pc = "idle" /\ outcome \in TransformFailures)
          => index = snap.index /\ mirror = snap.mirror

C1_Witness ==
    /\ pc = "idle" /\ outcome = "failed_jsonld"
    /\ images # snap.images
    /\ index = snap.index /\ mirror = snap.mirror /\ index # <<>>

\* C2: after a call that failed at a fetch, at decoding, at the marker or at
\* the JSON-LD block, the whole disk (index.html, 404.html, the images
\* directory and every asset in it) is as it was before the call.
C2_DiskUntouchedOnFailure ==
    (pc = "idle" /\ outcome \in TransformFailures) => Disk = snap

\* C3: starting from identical files, whenever no call is in progress
\* index.html and 404.html are identical, also after calls whose writes failed.
C3_MirrorIdentical == pc = "idle" => index = mirror

\* C4: starting from a page with one marker and one JSON-LD block that mirror
\* each other, every page a call persists has as many script entries as
\* numberOfItems and as list items, the items numbered 1, 2, ...
C4_RegionsMirrorEachOther ==
    (OneMarkerOneBlock(doc0) /\ Consistent(doc0) /\ pc = "idle" /\ outcome = "added")
        => Consistent(index) /\ Consistent(mirror)

\* C7: a call fetches at most twice; the second fetch is made exactly when the
\* first succeeded and its Content-Type or first bytes say AVIF; it comes before
\* any decode attempt, and nothing is fetched after it whatever it returned.
C7_AtMostOneRetry ==
    /\ fetches <= 2
    /\ pc = "fetch1" => fetches = 0 /\ ~decodeTried
    /\ pc = "fetch2" => fetches = 1 /\ ~decodeTried
    /\ (fetches >= 1 /\ pc # "fetch2")
          => (fetches = 2 <=> (resp1.status = "ok" /\ (resp1.ctAvif \/ resp1.body.magic)))

C7_Witness ==
    /\ fetches = 2 /\ decodeTried
    /\ resp1.status = "ok" /\ resp1.ctAvif /\ resp1.body.magic
    /\ resp.status = "ok" /\ resp.ctAvif /\ resp.body.magic
    /\ outcome = "failed_decode"

\* C5: from a page whose ld+json block has an empty itemListElement, after N
\* update_json_ld calls in a row the block's positions read 1, 2, ..., N.
C5_PositionsOneToN ==
    (fn = "patch" /\ ops # <<>> /\ \A i \in 1..Len(ops) : ops[i] = "ld")
        => (~LdRaises(res) /\ Positions(Block(res)) = OneToN(Len(ops)))

\* C6: on a page with the marker and a valid ld+json block, update_products_js
\* followed by update_json_ld succeeds, makes itemListElement one longer and
\* leaves numberOfItems equal to its length.
C6_OneMoreItem ==
    (fn = "patch" /\ LastOp \in {"both", "both_raise"} /\ MarkerIn(arg) /\ ~LdRaises(arg))
        => /\ LastOp = "both"
           /\ ~LdRaises(res)
           /\ Len(ItemList(Block(res))) = Len(ItemList(Block(arg))) + 1
           /\ Block(res).num = Len(ItemList(Block(res)))

\* C8: update_products_js changes the text only at the first marker (everything
\* before it and everything from it on is kept), and update_json_ld changes
\* only the object captured from the first ld+json block.
C8_FrameUnchanged ==
    /\ (fn = "patch" /\ LastOp = "js" /\ arg[FirstMarker(arg)].c = MARKER)
          => LET m == FirstMarker(arg)
                 n == Len(arg) - m + 1
             IN  /\ Len(res) >= Len(arg)
                 /\ Slice(res, 1, m - 1) = Slice(arg, 1, m - 1)
                 /\ Slice(res, Len(res) - n + 1, Len(res)) = Slice(arg, m, Len(arg))
    /\ (fn = "patch" /\ LastOp = "ld")
          => /\ Len(res) = Len(arg)
             /\ \A k \in 1..Len(arg) : k # LdGroup(arg)[1] => res[k] = arg[k]

\* C9 as stated: unescaping esc(value) gives value with its ends trimmed.
C9_RoundTripTrimmed ==
    (fn = "esc" /\ LastOp = "esc") => Unescape(res) = Strip(arg)

\* C9: unescaping esc(value) gives value with every newline turned into a
\* space and then its ends trimmed.
C9_RoundTripNewlinesCollapsed ==
    (fn = "esc" /\ LastOp = "esc") => Unescape(res) = Strip(ReplaceAll(arg, "NL", <<"SP">>))

C9_Witness ==
    /\ fn = "esc" /\ LastOp = "esc"
    /\ arg = <<"BSL", "NL", "SQ">>
    /\ res = <<"BSL", "BSL", "SP", "BSL", "SQ">>

\* C10: an image wider than MAX_WIDTH is saved MAX_WIDTH wide and
\* round(MAX_WIDTH * height / width) high, at least 1 (either way of rounding
\* a half is accepted); a narrower one keeps its size.
C10_HeightRounded ==
    (fn = "resize" /\ LastOp = "resize")
        => IF arg[1] > MAX_WIDTH
           THEN /\ res[1] = MAX_WIDTH
                /\ \E r \in 0..(MAX_WIDTH * arg[2]) :
                      /\ 2 * arg[1] * r - 2 * MAX_WIDTH * arg[2] \in (0 - arg[1])..arg[1]
                      /\ res[2] = Max(1, r)
           ELSE res = arg

====
